---- MODULE Spec2Model ----
(***************************************************************************)
(* Model of ext/rucaptcha: the CaptchaBuilder configuration setters, the   *)
(* random text generator, the palette cycler, the interference and glyph   *)
(* drawing of cyclic_write_character, and build/create.                     *)
(*                                                                         *)
(* The RGBA canvas is abstracted to its dimensions and the number of draw  *)
(* calls made on it; the arguments of the draw calls that the properties   *)
(* are about are kept in their own variables.  thread_rng is modelled as a *)
(* nondeterministic choice over the range gen_range is given.              *)
(***************************************************************************)
EXTENDS Integers, Sequences, FiniteSets

VARIABLES
    self,         \* the CaptchaBuilder
    last,         \* history: the argument of the latest call of each setter
    pc,           \* position of the operation under study
    text,         \* the captcha string (a sequence of characters)
    rnds,         \* the indices rand_captcha drew, one per position
    image,        \* the canvas: dimensions and draw calls made on it
    rnd,          \* the draws of cyclic_write_character
    colors,       \* cyclic_write_character: glyph colours
    line_colors,  \* cyclic_write_character: interference colours
    font,         \* cyclic_write_character: the font selected
    reps,         \* cyclic_write_character: draw_text_mut calls per character
    ellipse,      \* arguments of the latest draw_filled_ellipse_mut call
    out           \* the Captcha returned by build

vars == <<self, last, pc, text, rnds, image, rnd, colors, line_colors, font,
          reps, ellipse, out>>

(*************************** bounds ****************************************)
MaxLen == 2
MaxBuildLen == 1
MaxDifficulty == 11

(*************************** statics ***************************************)
BASIC_CHAR ==
    << "2", "3", "4", "5", "6", "7", "8", "9", "A", "B", "C", "D", "E", "F",
       "G", "H", "J", "K", "M", "N", "P", "Q", "R", "S", "T", "U", "V", "W",
       "X", "Y", "Z", "a", "b", "c", "d", "e", "f", "g", "h", "j", "k", "m",
       "n", "p", "q", "r", "s", "t", "u", "v", "w", "x", "y", "z" >>

COLORS ==
    << <<197, 166, 3, 255>>, <<187, 87, 5, 255>>, <<176, 7, 7, 255>>,
       <<186, 9, 56, 255>>, <<204, 11, 143, 255>>, <<124, 10, 190, 255>>,
       <<87, 0, 200, 255>>, <<61, 86, 168, 255>>, <<63, 166, 126, 255>>,
       <<69, 187, 48, 255>>, <<105, 208, 3, 255>>, <<160, 208, 3, 255>>,
       <<216, 219, 2, 255>>, <<50, 50, 50, 255>> >>

\* rand_num(len): the values gen_range(0..=len) can return
rand_num(len) == 0 .. len

(*************************** CaptchaBuilder ********************************)
new ==
    [ length |-> 4, width |-> 220, height |-> 70, complexity |-> 5,
      line |-> TRUE, noise |-> FALSE, circle |-> TRUE, format |-> "Png" ]

length(b, n) == [b EXCEPT !.length = n]

line(b, v) == [b EXCEPT !.line = v]

noise(b, v) == [b EXCEPT !.noise = v]

circle(b, v) == [b EXCEPT !.circle = v]

format_match_bug(s) ==
    CASE s = "png" -> "Png"
      [] s = "jpg" -> "Jpeg"
      [] s = "jpeg" -> "Png"
      [] s = "webp" -> "WebP"
      [] OTHER -> "Png"

format_match(s) ==
    CASE s = "png" -> "Png"
      [] s = "jpg" \/ s = "jpeg" -> "Jpeg"
      [] s = "webp" -> "WebP"
      [] OTHER -> "Png"

format(b, s) == [b EXCEPT !.format = format_match(s)]

\* usize::clamp(min, max)
clamp(v, min, max) == IF v < min THEN min ELSE IF v > max THEN max ELSE v

complexity_noclamp(b, v) == [b EXCEPT !.complexity = v]

complexity(b, v) == [b EXCEPT !.complexity = clamp(v, 1, 10)]

(*************************** inputs ****************************************)
FormatStrings == {"png", "jpg", "jpeg", "webp", "gif", ""}

NoArg == << >>

NoCall ==
    [ length |-> NoArg, line |-> NoArg, noise |-> NoArg, circle |-> NoArg,
      format |-> NoArg, complexity |-> NoArg ]

BlankImage(b) ==
    [ width |-> b.width, height |-> b.height, lines |-> 0, ellipses |-> 0,
      noise |-> << >> ]

NoRnd == [ colors |-> 0, line_colors |-> 0, font |-> 0 ]

NoEllipse == [ w |-> 0, x |-> 0, y |-> 0 ]

NoCaptcha == [ text |-> << >>, image |-> [ format |-> "", canvas |-> << >> ] ]

\* the state every specification starts from, but for pc and its inputs
Fresh ==
    /\ last = NoCall
    /\ rnds = << >>
    /\ image = BlankImage(new)
    /\ rnd = NoRnd
    /\ colors = << >>
    /\ line_colors = << >>
    /\ font = ""
    /\ reps = << >>
    /\ ellipse = NoEllipse
    /\ out = NoCaptcha

(*************************** setters as operations *************************)
buildVars == <<text, rnds, image, rnd, colors, line_colors, font, reps, ellipse, out>>

Length ==
    \E n \in 0 .. MaxLen :
        /\ self' = length(self, n)
        /\ last' = [last EXCEPT !.length = <<n>>]
        /\ UNCHANGED <<pc, buildVars>>

Line ==
    \E v \in BOOLEAN :
        /\ self' = line(self, v)
        /\ last' = [last EXCEPT !.line = <<v>>]
        /\ UNCHANGED <<pc, buildVars>>

Noise ==
    \E v \in BOOLEAN :
        /\ self' = noise(self, v)
        /\ last' = [last EXCEPT !.noise = <<v>>]
        /\ UNCHANGED <<pc, buildVars>>

Circle ==
    \E v \in BOOLEAN :
        /\ self' = circle(self, v)
        /\ last' = [last EXCEPT !.circle = <<v>>]
        /\ UNCHANGED <<pc, buildVars>>

Format ==
    \E s \in FormatStrings :
        /\ self' = format(self, s)
        /\ last' = [last EXCEPT !.format = <<s>>]
        /\ UNCHANGED <<pc, buildVars>>

Complexity ==
    \E v \in 0 .. MaxDifficulty :
        /\ self' = complexity(self, v)
        /\ last' = [last EXCEPT !.complexity = <<v>>]
        /\ UNCHANGED <<pc, buildVars>>

Init ==
    /\ self = new
    /\ pc = "builder"
    /\ text = << >>
    /\ Fresh

Next == Length \/ Line \/ Noise \/ Circle \/ Format \/ Complexity

Spec == Init /\ [][Next]_vars

(*************************** rand_captcha **********************************)
seed_len == Len(BASIC_CHAR)

seed == Len(BASIC_CHAR) - 1

\* rand_captcha(len) when the draws were d[1..len]; BASIC_CHAR[k] panics
\* for k >= 54
rand_captcha(d, len) ==
    IF \A i \in 1 .. len : d[i] < Len(BASIC_CHAR)
    THEN [panic |-> FALSE, out |-> [i \in 1 .. len |-> BASIC_CHAR[d[i] + 1]]]
    ELSE [panic |-> TRUE, out |-> << >>]

RandCaptcha ==
    /\ pc = "rand_captcha"
    /\ \E d \in [1 .. self.length -> rand_num(seed)] :
        LET r == rand_captcha(d, self.length)
        IN  /\ rnds' = d
            /\ text' = r.out
            /\ pc' = IF r.panic THEN "panicked" ELSE "done"
    /\ UNCHANGED <<self, last, image, rnd, colors, line_colors, font, reps,
                   ellipse, out>>

InitText ==
    /\ \E n \in 0 .. MaxLen : self = length(new, n)
    /\ pc = "rand_captcha"
    /\ text = << >>
    /\ Fresh

NextText == RandCaptcha

SpecText == InitText /\ [][NextText]_vars

(*************************** get_colors ************************************)
color_index_nomod(r, i) == r + i

color_index(r, i) == (r + i) % Len(COLORS)

\* get_colors(len) when rand_num returned r; COLORS[k] panics for k >= 14
get_colors(r, len) ==
    LET idx == [i \in 1 .. len |-> color_index(r, i - 1)]
    IN  IF \A i \in 1 .. len : idx[i] < Len(COLORS)
        THEN [panic |-> FALSE, out |-> [i \in 1 .. len |-> COLORS[idx[i] + 1]]]
        ELSE [panic |-> TRUE, out |-> << >>]

(*************************** interference shapes ***************************)
draw_cubic_bezier_curve_mut(img) == [img EXCEPT !.lines = @ + 1]

draw_filled_ellipse_mut(img) == [img EXCEPT !.ellipses = @ + 1]

ellipse_w_wide == {10 + r : r \in rand_num(20)}

ellipse_w == {10 + r : r \in rand_num(10)}

ellipse_x(img) == rand_num(img.width - 25)

ellipse_y(img) == rand_num(img.height - 15)

\* draw_interference_ellipse(1, image, color)
DrawInterferenceEllipse ==
    /\ pc = "draw_interference_ellipse"
    /\ \E w \in ellipse_w, x \in ellipse_x(image), y \in ellipse_y(image) :
        /\ ellipse' = [w |-> w, x |-> x, y |-> y]
        /\ image' = draw_filled_ellipse_mut(image)
    /\ pc' = "done"
    /\ UNCHANGED <<self, last, text, rnds, rnd, colors, line_colors, font,
                   reps, out>>

InitEllipse ==
    /\ self = new
    /\ pc = "draw_interference_ellipse"
    /\ text = << >>
    /\ Fresh

NextEllipse == DrawInterferenceEllipse

SpecEllipse == InitEllipse /\ [][NextEllipse]_vars

(*************************** cyclic_write_character ************************)
\* the body of the (0..captcha.len()).for_each closure
interference_step_swapped(img, lines) ==
    IF lines
    THEN draw_filled_ellipse_mut(draw_cubic_bezier_curve_mut(img))
    ELSE img

interference_step(img, lines) ==
    draw_filled_ellipse_mut(IF lines THEN draw_cubic_bezier_curve_mut(img) ELSE img)

RECURSIVE interference_loop(_, _, _)
interference_loop(img, lines, n) ==
    IF n = 0 THEN img
    ELSE interference_loop(interference_step(img, lines), lines, n - 1)

\* "Draw line, ellipse first as background"
interference(b, img, lines, n) ==
    IF b.circle THEN interference_loop(img, lines, n) ELSE img

\* match rand_num(2)
font_draws == rand_num(2)

select_font(r) ==
    CASE r = 0 -> "FONT_0"
      [] r = 1 -> "FONT_1"
      [] OTHER -> "FONT_1"

glyph_draws_zero == {r : r \in rand_num(3)}

\* 0..(rand_num(3) + 1): the number of draw_text_mut calls for one character
glyph_draws == {r + 1 : r \in rand_num(3)}

\* (image.width() - 20) / captcha.len() panics for an empty captcha
write_panics(captcha) == Len(captcha) = 0

CyclicWriteCharacter ==
    /\ pc = "cyclic_write_character"
    /\ IF write_panics(text)
       THEN /\ pc' = "panicked"
            /\ UNCHANGED <<image, rnd, colors, line_colors, font, reps>>
       ELSE \E cr \in rand_num(Len(COLORS)), lr \in rand_num(Len(COLORS)),
               fr \in font_draws, rp \in [1 .. Len(text) -> glyph_draws] :
               LET cs == get_colors(cr, Len(text))
                   ls == get_colors(lr, Len(text))
               IN  IF cs.panic \/ ls.panic
                   THEN /\ pc' = "panicked"
                        /\ UNCHANGED <<image, rnd, colors, line_colors, font, reps>>
                   ELSE /\ rnd' = [colors |-> cr, line_colors |-> lr, font |-> fr]
                        /\ colors' = cs.out
                        /\ line_colors' = ls.out
                        /\ image' = interference(self, image, self.line, Len(text))
                        /\ font' = select_font(fr)
                        /\ reps' = rp
                        /\ pc' = "done"
    /\ UNCHANGED <<self, last, text, rnds, ellipse, out>>

SampleText(n) == SubSeq(BASIC_CHAR, 1, n)

InitWrite ==
    /\ \E n \in 0 .. MaxLen, c \in BOOLEAN, l \in BOOLEAN :
        /\ self = line(circle(length(new, n), c), l)
        /\ text = SampleText(n)
    /\ pc = "cyclic_write_character"
    /\ Fresh

NextWrite == CyclicWriteCharacter

SpecWrite == InitWrite /\ [][NextWrite]_vars

(*************************** build and create ******************************)
gaussian_noise_mut(b, img) ==
    [img EXCEPT !.noise = <<b.complexity - 1, (10 * b.complexity) - 10,
                            (5 * b.complexity) - 5>>]

\* the format build hands to write_to
write_format(b) == "Png"

\* build, for the indices d drawn by rand_captcha
Build(b, d) ==
    LET r == rand_captcha(d, b.length)
        buf == interference(b, BlankImage(b), b.line, Len(r.out))
        noisy == IF b.noise THEN gaussian_noise_mut(b, buf) ELSE buf
    IN  /\ rnds' = d
        /\ text' = r.out
        /\ IF r.panic \/ write_panics(r.out)
           THEN /\ pc' = "panicked"
                /\ UNCHANGED <<image, out>>
           ELSE /\ image' = noisy
                /\ out' = [text |-> r.out,
                           image |-> [format |-> write_format(b),
                                      canvas |-> noisy]]
                /\ pc' = "done"

\* lib.rs create(len, difficulty, line, noise, circle, format)
Create ==
    /\ pc = "create"
    /\ \E len \in 0 .. MaxBuildLen, difficulty \in 0 .. MaxDifficulty,
          l \in BOOLEAN, n \in BOOLEAN, c \in BOOLEAN, f \in FormatStrings :
          LET b == format(circle(noise(line(length(complexity(new, difficulty),
                                                   len), l), n), c), f)
          IN  /\ self' = b
              /\ \E d \in [1 .. len -> rand_num(seed)] : Build(b, d)
    /\ UNCHANGED <<last, rnd, colors, line_colors, font, reps, ellipse>>

InitBuild ==
    /\ self = new
    /\ pc = "create"
    /\ text = << >>
    /\ Fresh

NextBuild == Create

SpecBuild == InitBuild /\ [][NextBuild]_vars

(*************************** properties ************************************)
Formats == {"Png", "Jpeg", "WebP"}

\* C1: the container format build encodes the image in equals the format
\* configured on the builder (png -> PNG, jpg/jpeg -> JPEG, webp -> WebP,
\* anything else -> PNG).
C1_EncodesConfiguredFormat ==
    pc = "done" => out.image.format = self.format

\* C2: for every configured length >= 1 rand_captcha does not panic, the
\* text has exactly `length` characters, every index drawn is within [0, 53],
\* every character is the alphabet member at the index drawn, and the draw
\* range covers every index of the 54-character alphabet.
C2_TextOverAlphabet ==
    /\ Cardinality({BASIC_CHAR[k] : k \in 1 .. Len(BASIC_CHAR)}) = 54
    /\ {r : r \in rand_num(seed)} = 0 .. 53
    /\ self.length >= 1 => pc # "panicked"
    /\ (pc = "done" /\ self.length >= 1) =>
          /\ Len(text) = self.length
          /\ Len(rnds) = self.length
          /\ \A i \in 1 .. self.length :
                /\ rnds[i] \in 0 .. 53
                /\ text[i] \in {BASIC_CHAR[k] : k \in 1 .. 54}
                /\ text[i] = BASIC_CHAR[rnds[i] + 1]

C2_LastCharDrawn ==
    /\ pc = "done"
    /\ self.length = MaxLen
    /\ rnds[1] = 53
    /\ text[1] = "z"
    /\ rnds[MaxLen] = 0
    /\ text[MaxLen] = "2"

\* C3: after any sequence of setter calls the stored complexity is in
\* [1, 10], and once complexity(v) has been called it is clamp(v, 1, 10)
\* for the latest v (0 gives 1, 11 gives 10, 5 gives 5).
C3_ComplexityClamped ==
    /\ self.complexity \in 1 .. 10
    /\ last.complexity # NoArg =>
          LET v == last.complexity[1]
          IN  /\ v < 1 => self.complexity = 1
              /\ v > 10 => self.complexity = 10
              /\ v \in 1 .. 10 => self.complexity = v

C3_ClampedFromEleven ==
    /\ last.complexity = <<11>>
    /\ self.complexity = 10
    /\ last.length # NoArg
    /\ last.format # NoArg

\* C4: a build with length = 0 completes normally and returns an empty text
\* together with an encoded image, for every combination of the flags.
C4_ZeroLengthBuilds ==
    (pc \in {"done", "panicked"} /\ self.length = 0) =>
        /\ pc = "done"
        /\ out.text = << >>
        /\ out.image.format \in Formats

\* C5: the number of filled ellipses one call draws is the text length when
\* circle is enabled and 0 otherwise, whatever the line flag; the number of
\* bezier strokes is the text length when circle and line are both enabled
\* and 0 otherwise.
C5_ShapeCounts ==
    pc \in {"done", "panicked"} =>
        /\ image.ellipses = IF self.circle THEN Len(text) ELSE 0
        /\ image.lines = IF self.circle /\ self.line THEN Len(text) ELSE 0

C5_EllipsesWithoutLines ==
    /\ pc = "done"
    /\ self.circle
    /\ ~self.line
    /\ Len(text) = MaxLen
    /\ image.ellipses = MaxLen
    /\ image.lines = 0

\* C6: every configuration field equals the value given by the latest call
\* of its own setter (format mapped, complexity clamped), or its default if
\* that setter was never called; width and height keep their defaults.
C6_FieldsFollowOwnSetter ==
    /\ self.length = IF last.length = NoArg THEN 4 ELSE last.length[1]
    /\ self.line = IF last.line = NoArg THEN TRUE ELSE last.line[1]
    /\ self.noise = IF last.noise = NoArg THEN FALSE ELSE last.noise[1]
    /\ self.circle = IF last.circle = NoArg THEN TRUE ELSE last.circle[1]
    /\ self.width = 220
    /\ self.height = 70
    /\ self.format =
          IF last.format = NoArg THEN "Png"
          ELSE IF last.format[1] \in {"jpg", "jpeg"} THEN "Jpeg"
          ELSE IF last.format[1] = "webp" THEN "WebP"
          ELSE "Png"
    /\ self.complexity =
          IF last.complexity = NoArg THEN 5
          ELSE IF last.complexity[1] < 1 THEN 1
          ELSE IF last.complexity[1] > 10 THEN 10
          ELSE last.complexity[1]

C6_AllSettersCalled ==
    /\ last.length = <<0>>
    /\ last.line = <<FALSE>>
    /\ last.noise = <<TRUE>>
    /\ last.circle = <<FALSE>>
    /\ last.format = <<"jpeg">>
    /\ last.complexity = <<0>>
    /\ self = [ length |-> 0, width |-> 220, height |-> 70, complexity |-> 1,
                line |-> FALSE, noise |-> TRUE, circle |-> FALSE,
                format |-> "Jpeg" ]

\* C7 (as claimed): every character's glyph is drawn at least 1 and at most
\* 3 times.
C7_RepsAtMostThree ==
    pc = "done" =>
        /\ Len(reps) = Len(text)
        /\ \A i \in 1 .. Len(reps) : reps[i] \in 1 .. 3

\* C7 (amended): every character's glyph is drawn at least 1 and at most 4
\* times (1 plus a draw from the inclusive range [0, 3]).
C7_RepsAtMostFour ==
    pc = "done" =>
        /\ Len(reps) = Len(text)
        /\ \A i \in 1 .. Len(reps) : reps[i] \in 1 .. 4

C7_OneAndFourDraws ==
    /\ pc = "done"
    /\ Len(text) = MaxLen
    /\ reps[1] = 1
    /\ reps[MaxLen] = 4

\* C8 (as claimed): every filled ellipse has a radius in [10, 19] and a
\* centre in [0, width-25] x [0, height-15].
C8_RadiusAtMostNineteen ==
    pc = "done" =>
        /\ ellipse.w \in 10 .. 19
        /\ ellipse.x \in 0 .. (image.width - 25)
        /\ ellipse.y \in 0 .. (image.height - 15)

\* C8 (amended): every filled ellipse has a radius in [10, 20] (10 plus a
\* draw from the inclusive range [0, 10]) and a centre in
\* [0, width-25] x [0, height-15] of the 220x70 canvas.
C8_RadiusAtMostTwenty ==
    pc = "done" =>
        /\ image.width = 220
        /\ image.height = 70
        /\ image.ellipses = 1
        /\ ellipse.w \in 10 .. 20
        /\ ellipse.x \in 0 .. (image.width - 25)
        /\ ellipse.y \in 0 .. (image.height - 15)

C8_LargestEllipse ==
    /\ pc = "done"
    /\ ellipse = [w |-> 20, x |-> 195, y |-> 55]

\* C9: the font is selected once per captcha, and the equally likely
\* outcomes of the draw map to FONT_0 and to FONT_1 in equal numbers.
C9_FontUniform ==
    pc = "done" =>
        /\ font \in {"FONT_0", "FONT_1"}
        /\ Cardinality({r \in font_draws : select_font(r) = "FONT_0"})
              = Cardinality({r \in font_draws : select_font(r) = "FONT_1"})
        /\ 2 * Cardinality({r \in font_draws : select_font(r) = font})
              = Cardinality(font_draws)

\* C10: for every offset r drawn from the inclusive range [0, 14]
\* get_colors never indexes outside the 14-entry palette and returns one
\* colour per character, the i-th being palette[(r+i) mod 14]; the glyph and
\* interference colours come from two calls, each with its own offset.
C10_PaletteRotation ==
    /\ Len(COLORS) = 14
    /\ Len(text) >= 1 => pc # "panicked"
    /\ pc = "done" =>
          /\ rnd.colors \in 0 .. 14
          /\ rnd.line_colors \in 0 .. 14
          /\ Len(colors) = Len(text)
          /\ Len(line_colors) = Len(text)
          /\ \A i \in 1 .. Len(text) :
                /\ colors[i] = COLORS[((rnd.colors + (i - 1)) % 14) + 1]
                /\ line_colors[i] = COLORS[((rnd.line_colors + (i - 1)) % 14) + 1]

C10_OffsetFourteenWraps ==
    /\ pc = "done"
    /\ Len(text) = MaxLen
    /\ rnd.colors = 14
    /\ rnd.line_colors = 13
    /\ colors[1] = COLORS[1]
    /\ line_colors[1] = COLORS[14]
    /\ line_colors[2] = COLORS[1]

====
